---- MODULE Spec2Model ----
(***************************************************************************)
(* Model of factory/offchain/meshjs/factory.ts: the off-chain driver of    *)
(* the Cardano Factory pattern (createFactory, createProduct, getProducts, *)
(* getTag, getFactory) running against a UTxO ledger.                      *)
(*                                                                         *)
(* Representation.                                                         *)
(*  - A JavaScript string (product id, tag) is a sequence of characters,   *)
(*    each a one-character TLA+ string.                                    *)
(*  - A hex string is a sequence of bytes, each a two-digit TLA+ string.   *)
(*  - A compiled script, a script hash and an address are TLA+ strings     *)
(*    built from the validator title and the applied parameters, so that   *)
(*    two derivations agree exactly when title and parameters agree (the   *)
(*    hash is taken to be collision free).                                 *)
(*  - A value that is `undefined` in the program is the string Undefined.  *)
(*  - Lovelace amounts are not tracked; an amount lists native assets.     *)
(***************************************************************************)
EXTENDS Integers, Sequences, FiniteSets, TLC

(***************************************************************************)
(* Bounds of the model                                                     *)
(***************************************************************************)
\* committed transactions after which no new call is started
MaxTx == 2

Procs == {"p1", "p2"}
\* wallet files, identified with the payment key hash of their change address
Owners == {"o1", "o2"}
ProductIds == {<<"a">>, <<"b">>}
Tags == {<<"t">>}

(***************************************************************************)
(* Config (factory.ts:23-25)                                               *)
(***************************************************************************)
NETWORK_ID == 0

Undefined == "undefined"

\* Buffer.from(c, 'utf-8').toString('hex') of one character
CharHex(c) ==
  CASE c = "A" -> "41" [] c = "C" -> "43" [] c = "E" -> "45" [] c = "F" -> "46"
    [] c = "K" -> "4b" [] c = "M" -> "4d" [] c = "O" -> "4f" [] c = "R" -> "52"
    [] c = "T" -> "54" [] c = "Y" -> "59" [] c = "_" -> "5f"
    [] c = "a" -> "61" [] c = "b" -> "62" [] c = "t" -> "74" [] c = "u" -> "75"

\* stringToHex: the UTF-8 bytes of the string, in hex
stringToHex(str) == [i \in 1..Len(str) |-> CharHex(str[i])]

\* Buffer.from(b, 'hex').toString('utf-8') of one byte of the ASCII range
HexChar(b) ==
  CASE b = "41" -> "A" [] b = "43" -> "C" [] b = "45" -> "E" [] b = "46" -> "F"
    [] b = "4b" -> "K" [] b = "4d" -> "M" [] b = "4f" -> "O" [] b = "52" -> "R"
    [] b = "54" -> "T" [] b = "59" -> "Y" [] b = "5f" -> "_"
    [] b = "61" -> "a" [] b = "62" -> "b" [] b = "74" -> "t" [] b = "75" -> "u"

\* hexToString: the string whose UTF-8 bytes the hex string spells
hexToString(hex) == [i \in 1..Len(hex) |-> HexChar(hex[i])]

FACTORY_MARKER_NAME_HEX ==
  stringToHex(<<"F","A","C","T","O","R","Y","_","M","A","R","K","E","R">>)

\* the text of a hex string, as it is embedded in a script parameter
RECURSIVE HexText(_)
HexText(hex) == IF hex = <<>> THEN "" ELSE Head(hex) \o HexText(Tail(hex))

VARIABLES
  utxos,    \* the ledger's unspent outputs
  spent,    \* references of the outputs consumed so far
  mints,    \* the asset index: one entry per committed mint
  nextTx,   \* number of committed transactions
  proc,     \* the running calls, one per process
  strict    \* the installed library's scriptHash validates its argument

vars == <<utxos, spent, mints, nextTx, proc, strict>>

(***************************************************************************)
(* Script helpers (factory.ts:47-60)                                       *)
(***************************************************************************)
\* the text of a sequence of characters
RECURSIVE Text(_)
Text(cs) == IF cs = <<>> THEN "" ELSE Head(cs) \o Text(Tail(cs))

\* the strings a title starts with
Prefixes(title) == {Text(SubSeq(title, 1, k)) : k \in 0..Len(title)}

\* blueprint.validators of plutus.json, in order: the title, character by
\* character, and the compiled code of each validator
Blueprint ==
  <<[title |-> <<"f", "a", "c", "t", "o", "r", "y", ".", "f", "a", "c", "t", "o", "r", "y", ".", "s", "p", "e", "n", "d">>,
     compiledCode |-> "code<factory.>"],
    [title |-> <<"f", "a", "c", "t", "o", "r", "y", "_", "m", "a", "r", "k", "e", "r", ".", "f", "a", "c", "t", "o", "r", "y", "_", "m", "a", "r", "k", "e", "r", ".", "m", "i", "n", "t">>,
     compiledCode |-> "code<factory_marker.>"],
    [title |-> <<"p", "r", "o", "d", "u", "c", "t", ".", "p", "r", "o", "d", "u", "c", "t", ".", "s", "p", "e", "n", "d">>,
     compiledCode |-> "code<product>"]>>

\* for each validator, the names for which v.title.startsWith(name) holds
TitlePrefixes == [i \in 1..Len(Blueprint) |-> Prefixes(Blueprint[i].title)]

\* the positions of the validators whose title starts with the name
Matching(name) == {i \in 1..Len(Blueprint) : name \in TitlePrefixes[i]}

\* the message of the Error of line 49
ValidatorNotFound(name) == "Validator not found: " \o name

\* getValidator(name) throws: find gives undefined
NoValidator(name) == Matching(name) = {}

\* blueprint.validators.find(v => v.title.startsWith(name)).compiledCode: the
\* code of the first validator whose title starts with the name, or the
\* message of the Error thrown when there is none
getValidator(name) ==
  IF NoValidator(name) THEN ValidatorNotFound(name)
  ELSE Blueprint[CHOOSE i \in Matching(name) :
                   \A k \in Matching(name) : i <= k].compiledCode

\* scriptHash(bytes) throws: a validating library reads bytes.length of
\* undefined (a TypeError); a library that wraps the value as it is returns
scriptHashThrows(bytes) == bytes = Undefined /\ strict

\* applyParamsToScript(compiled, [p1, p2], 'JSON')
applyParamsToScript2(compiled, p1, p2) ==
  compiled \o "(" \o p1 \o "," \o p2 \o ")"

\* applyParamsToScript(compiled, [p1, p2, p3], 'JSON')
applyParamsToScript3(compiled, p1, p2, p3) ==
  compiled \o "(" \o p1 \o "," \o p2 \o "," \o p3 \o ")"

\* outputReference(txHash, outputIndex)
outputReference(txHash, outputIndex) == txHash \o "#" \o ToString(outputIndex)

\* resolveScriptHash(script, 'V3')
resolveScriptHash(script) == "hash[" \o script \o "]"

\* serializePlutusScript({code, version: 'V3'}, undefined, NETWORK_ID).address
getScriptAddress(compiled) ==
  "addr" \o ToString(NETWORK_ID) \o ":" \o resolveScriptHash(compiled)

\* the change address of a wallet, and resolvePaymentKeyHash of it
ChangeAddress(w) == "addr" \o ToString(NETWORK_ID) \o ":key:" \o w

(***************************************************************************)
(* Results of the derivation helpers.  ok = FALSE: the helper threw err.   *)
(* factoryMarker = Undefined: the returned object has no such property.    *)
(***************************************************************************)
Threw(e) ==
  [ok |-> FALSE, err |-> e, script |-> "", scriptHash |-> "", address |-> "",
   factoryMarker |-> Undefined, markerScript |-> ""]

Details(script, marker, markerScript) ==
  [ok |-> TRUE, err |-> "", script |-> script,
   scriptHash |-> resolveScriptHash(script),
   address |-> getScriptAddress(script),
   factoryMarker |-> marker, markerScript |-> markerScript]

NoDetails == Threw("")

(***************************************************************************)
(* Factory scripts (factory.ts:66-112)                                     *)
(***************************************************************************)
\* factory.factoryMarker.script of getFactoryMarkerAndScriptDetails
factoryMarkerScript(ownerPkh, seedRef) ==
  applyParamsToScript2(getValidator("factory_marker."), ownerPkh, seedRef)

\* as getFactoryMarkerAndScriptDetails, but the marker policy is parameterised
\* by a fixed output reference instead of the seed
getFactoryMarkerAndScriptDetailsUnboundSeed(ownerPkh, seedRef) ==
  LET markerScript == factoryMarkerScript(ownerPkh, outputReference("genesis:o1", 0))
      factoryScript == applyParamsToScript2(getValidator("factory."), ownerPkh,
                                            resolveScriptHash(markerScript))
  IN  IF NoValidator("factory_marker.")
      THEN Threw(ValidatorNotFound("factory_marker."))
      ELSE IF NoValidator("factory.") THEN Threw(ValidatorNotFound("factory."))
      ELSE Details(factoryScript, resolveScriptHash(markerScript), markerScript)

\* getFactoryMarkerAndScriptDetails(ownerPkh, seedUtxo); seedRef is
\* outputReference(seedUtxo.input.txHash, seedUtxo.input.outputIndex)
getFactoryMarkerAndScriptDetails(ownerPkh, seedRef) ==
  LET markerScript == factoryMarkerScript(ownerPkh, seedRef)
      factoryScript == applyParamsToScript2(getValidator("factory."), ownerPkh,
                                            resolveScriptHash(markerScript))
  IN  IF NoValidator("factory_marker.")
      THEN Threw(ValidatorNotFound("factory_marker."))
      ELSE IF NoValidator("factory.") THEN Threw(ValidatorNotFound("factory."))
      ELSE Details(factoryScript, resolveScriptHash(markerScript), markerScript)

\* getFactoryScriptDetails(ownerPkh, markerPolicyId).  getValidator is
\* evaluated before scriptHash(markerPolicyId).  With markerPolicyId
\* undefined the script is parameterised by undefined, unless scriptHash
\* throws.  The returned object has the single property `factory`.
getFactoryScriptDetails(ownerPkh, markerPolicyId) ==
  IF NoValidator("factory.") THEN Threw(ValidatorNotFound("factory."))
  ELSE IF scriptHashThrows(markerPolicyId) THEN Threw("TypeError")
  ELSE Details(applyParamsToScript2(getValidator("factory."), ownerPkh,
                                    markerPolicyId),
               Undefined, "")

(***************************************************************************)
(* Product script (factory.ts:118-138)                                     *)
(***************************************************************************)
\* getProductScriptDetails(ownerPkh, productId): the factory is derived with
\* one argument (markerPolicyId undefined); getValidator('product') is
\* evaluated, and then factory.factoryMarker.policyId is read from an object
\* that has no factoryMarker (a TypeError).
getProductScriptDetails(ownerPkh, productId) ==
  LET factory == getFactoryScriptDetails(ownerPkh, Undefined)
  IN  IF ~factory.ok THEN Threw(factory.err)
      ELSE IF NoValidator("product") THEN Threw(ValidatorNotFound("product"))
      ELSE IF factory.factoryMarker = Undefined THEN Threw("TypeError")
      ELSE Details(applyParamsToScript3(getValidator("product"), ownerPkh,
                                        factory.factoryMarker,
                                        HexText(stringToHex(productId))),
                   Undefined, "")

(***************************************************************************)
(* Plutus data (mConStr0, lists, byte strings) and unspent outputs          *)
(***************************************************************************)
NoDatum == [present |-> FALSE, fields |-> <<>>]

\* mConStr0(fields): constructor alternative 0 with the given fields
mConStr0(fields) == [present |-> TRUE, fields |-> fields]

PList(items) == [kind |-> "list", list |-> items, bytes |-> <<>>]
PBytes(hex) == [kind |-> "bytes", list |-> <<>>, bytes |-> hex]

\* { unit: policyId + assetName, quantity: '1' }
Asset(policyId, assetName) ==
  [policyId |-> policyId, assetName |-> assetName, quantity |-> 1]

Output(address, amount, datum) ==
  [address |-> address, amount |-> amount, datum |-> datum]

UTxO(ref, out) ==
  [ref |-> ref, address |-> out.address, amount |-> out.amount,
   datum |-> out.datum]

NoTx ==
  [inputs |-> {}, scriptInput |-> "", scriptInputAddress |-> "",
   collateral |-> "", mint |-> {}, outputs |-> <<>>, requiredSigner |-> "",
   signedBy |-> {}, changeAddress |-> ""]

Idle ==
  [pc |-> "idle", cmd |-> "none", owner |-> "", productId |-> <<>>,
   tag |-> <<>>, marker |-> "", seed |-> "", tx |-> NoTx, err |-> "",
   factory |-> NoDetails, product |-> NoDetails, tagOut |-> <<>>,
   products |-> {}, pre |-> {}, seen |-> {}, fetched |-> {}]

\* provider.fetchAddressUTxOs(address)
fetchAddressUTxOs(address) == {u \in utxos : u.address = address}

Refs(us) == {u.ref : u \in us}

\* the FactoryMarkerIdentity of an owner and a seed
MarkerPolicy(o, seedRef) == resolveScriptHash(factoryMarkerScript(o, seedRef))

\* the FactoryState resources of an owner: the unspent outputs that carry a
\* marker unit minted under a marker identity of that owner.  Each call
\* records in `pre` the ones that exist when it starts.
FactoryStatesOf(o) ==
  {u \in utxos : \E a \in u.amount, s \in spent \cup Refs(utxos) :
      /\ a.assetName = FACTORY_MARKER_NAME_HEX
      /\ a.policyId = MarkerPolicy(o, s)}

(***************************************************************************)
(* 1. Create Factory (factory.ts:143-213)                                  *)
(***************************************************************************)
\* the transaction assembled at lines 164-203 and signed at line 205.
\* extras: what selectUtxosFrom(utxos) adds to cover fees and min-ADA.
\* as CreateFactoryTx, but without the txIn of the seed
CreateFactoryTxMissingSeed(ownerPkh, changeAddr, seedRef, collateralRef, extras) ==
  LET factory == getFactoryMarkerAndScriptDetails(ownerPkh, seedRef)
  IN  [inputs |-> extras,
       scriptInput |-> "", scriptInputAddress |-> "",
       collateral |-> collateralRef,
       mint |-> {Asset(factory.factoryMarker, FACTORY_MARKER_NAME_HEX)},
       outputs |-> <<Output(factory.address,
                            {Asset(factory.factoryMarker, FACTORY_MARKER_NAME_HEX)},
                            mConStr0(<<PList(<<>>)>>))>>,
       requiredSigner |-> ownerPkh,
       signedBy |-> {ownerPkh},
       changeAddress |-> changeAddr]

\* as CreateFactoryTx, but without requiredSignerHash(ownerPkh)
CreateFactoryTxNoSigner(ownerPkh, changeAddr, seedRef, collateralRef, extras) ==
  LET factory == getFactoryMarkerAndScriptDetails(ownerPkh, seedRef)
  IN  [inputs |-> {seedRef} \cup extras,
       scriptInput |-> "", scriptInputAddress |-> "",
       collateral |-> collateralRef,
       mint |-> {Asset(factory.factoryMarker, FACTORY_MARKER_NAME_HEX)},
       outputs |-> <<Output(factory.address,
                            {Asset(factory.factoryMarker, FACTORY_MARKER_NAME_HEX)},
                            mConStr0(<<PList(<<>>)>>))>>,
       requiredSigner |-> "",
       signedBy |-> {ownerPkh},
       changeAddress |-> changeAddr]

\* as CreateFactoryTx, but without the txOut to the factory address
CreateFactoryTxNoOutput(ownerPkh, changeAddr, seedRef, collateralRef, extras) ==
  LET factory == getFactoryMarkerAndScriptDetails(ownerPkh, seedRef)
  IN  [inputs |-> {seedRef} \cup extras,
       scriptInput |-> "", scriptInputAddress |-> "",
       collateral |-> collateralRef,
       mint |-> {Asset(factory.factoryMarker, FACTORY_MARKER_NAME_HEX)},
       outputs |-> <<>>,
       requiredSigner |-> ownerPkh,
       signedBy |-> {ownerPkh},
       changeAddress |-> changeAddr]

\* as CreateFactoryTx, but the output at the factory address takes no asset
CreateFactoryTxMarkerUnlocked(ownerPkh, changeAddr, seedRef, collateralRef, extras) ==
  LET factory == getFactoryMarkerAndScriptDetails(ownerPkh, seedRef)
  IN  [inputs |-> {seedRef} \cup extras,
       scriptInput |-> "", scriptInputAddress |-> "",
       collateral |-> collateralRef,
       mint |-> {Asset(factory.factoryMarker, FACTORY_MARKER_NAME_HEX)},
       outputs |-> <<Output(factory.address, {}, mConStr0(<<PList(<<>>)>>))>>,
       requiredSigner |-> ownerPkh,
       signedBy |-> {ownerPkh},
       changeAddress |-> changeAddr]

CreateFactoryTx(ownerPkh, changeAddr, seedRef, collateralRef, extras) ==
  LET factory == getFactoryMarkerAndScriptDetails(ownerPkh, seedRef)
  IN  [inputs |-> {seedRef} \cup extras,
       scriptInput |-> "", scriptInputAddress |-> "",
       collateral |-> collateralRef,
       mint |-> {Asset(factory.factoryMarker, FACTORY_MARKER_NAME_HEX)},
       outputs |-> <<Output(factory.address,
                            {Asset(factory.factoryMarker, FACTORY_MARKER_NAME_HEX)},
                            mConStr0(<<PList(<<>>)>>))>>,
       requiredSigner |-> ownerPkh,
       signedBy |-> {ownerPkh},
       changeAddress |-> changeAddr]

\* the calls that may still submit a transaction
Building == {q \in Procs : proc[q].pc \in {"fetched", "built"}}

\* lines 144-151: load the wallet and fetch its outputs; with none the call
\* throws.  The order in which the provider lists the outputs is not fixed,
\* so utxos[0] (the seed of line 154) is any of them.
CreateFactoryFetch(p, w) ==
  /\ proc[p].pc = "idle"
  /\ nextTx + Cardinality(Building) < MaxTx
  /\ LET fetched == fetchAddressUTxOs(ChangeAddress(w))
         call == [Idle EXCEPT !.cmd = "create-factory", !.owner = w,
                              !.pre = FactoryStatesOf(w)]
     IN  \/ /\ fetched = {}
            /\ proc' = [proc EXCEPT ![p] =
                 [call EXCEPT !.pc = "failed", !.err = "No wallet UTxOs"]]
         \/ \E seedUtxo \in fetched :
               proc' = [proc EXCEPT ![p] =
                 [call EXCEPT !.pc = "fetched", !.seed = seedUtxo.ref,
                              !.fetched = Refs(fetched)]]
  /\ UNCHANGED <<utxos, spent, mints, nextTx, strict>>

\* lines 153-205: ask the wallet for its collateral, which it reads from the
\* chain as it is now and which may list none (collateral[0] is then
\* undefined), derive the scripts from the seed, assemble and sign the
\* transaction from the outputs fetched at line 150.
CreateFactoryBuild(p) ==
  /\ proc[p].pc = "fetched"
  /\ LET w == proc[p].owner
         factory == getFactoryMarkerAndScriptDetails(w, proc[p].seed)
     IN  IF ~factory.ok
         THEN proc' = [proc EXCEPT ![p].pc = "failed", ![p].err = factory.err]
         ELSE \/ proc' = [proc EXCEPT ![p].pc = "failed",
                                      ![p].err = "TypeError"]
              \/ \E collateral \in fetchAddressUTxOs(ChangeAddress(w)) :
                 \E extras \in SUBSET (proc[p].fetched \ {proc[p].seed}) :
                    proc' = [proc EXCEPT
                      ![p].pc = "built",
                      ![p].factory = factory,
                      ![p].tx = CreateFactoryTx(w, ChangeAddress(w), proc[p].seed,
                                               collateral.ref, extras)]
  /\ UNCHANGED <<utxos, spent, mints, nextTx, strict>>

(***************************************************************************)
(* The ledger behind wallet.submitTx (factory.ts:206, 300): the single-    *)
(* spend rule of the UTxO ledger and the owner check of the scripts.       *)
(***************************************************************************)
\* the owners whose identity parameterises a minting policy: the marker
\* policy of (owner, seed) and the factory script of (owner, marker)
OwnersOfPolicy(policyId) ==
  {o \in Owners :
     \/ \E s \in spent \cup Refs(utxos) : policyId = MarkerPolicy(o, s)
     \/ \E m \in {x.policyId : x \in mints} \cup {Undefined} :
          policyId = resolveScriptHash(
                       applyParamsToScript2(getValidator("factory."), o, m))}

\* a script parameterised by an owner lets a transaction mint only if it
\* names that owner as required signer, and a required signer has signed
Authorized(tx) ==
  /\ tx.requiredSigner # "" => tx.requiredSigner \in tx.signedBy
  /\ \A a \in tx.mint : \A o \in OwnersOfPolicy(a.policyId) :
       tx.requiredSigner = o

\* every input, the script input and the collateral are unspent, and the
\* transaction is authorized
LedgerAccepts(tx) ==
  /\ tx.inputs \subseteq Refs(utxos)
  /\ tx.collateral \in Refs(utxos)
  /\ Authorized(tx)

TxHash(n) == "tx" \o ToString(n)

\* the outputs a committed transaction adds: the declared outputs in order,
\* then the change output, which carries every asset the inputs and the mint
\* bring in and no declared output takes
Produced(tx, txHash) ==
  LET consumed == {u \in utxos : u.ref \in tx.inputs}
      incoming == UNION {u.amount : u \in consumed} \cup tx.mint
      taken == UNION {tx.outputs[i].amount : i \in 1..Len(tx.outputs)}
      change == Output(tx.changeAddress, incoming \ taken, NoDatum)
  IN  {UTxO(outputReference(txHash, i - 1), tx.outputs[i]) :
         i \in 1..Len(tx.outputs)}
      \cup {UTxO(outputReference(txHash, Len(tx.outputs)), change)}

Commit(tx) ==
  LET txHash == TxHash(nextTx)
  IN  /\ utxos' = {u \in utxos : u.ref \notin tx.inputs} \cup Produced(tx, txHash)
      /\ spent' = spent \cup tx.inputs
      /\ mints' = mints \cup {[tx |-> txHash, policyId |-> a.policyId,
                                assetName |-> a.assetName,
                                quantity |-> a.quantity] : a \in tx.mint}
      /\ nextTx' = nextTx + 1

\* lines 206 and 300: wallet.submitTx(signed).  The ledger commits the
\* transaction or rejects it whole; a rejection is thrown to the caller.
Submit(p) ==
  /\ proc[p].pc = "built"
  /\ IF LedgerAccepts(proc[p].tx)
     THEN /\ Commit(proc[p].tx)
          /\ proc' = [proc EXCEPT ![p].pc = "done"]
     ELSE /\ proc' = [proc EXCEPT ![p].pc = "failed",
                                  ![p].err = "LedgerSubmissionRejected"]
          /\ UNCHANGED <<utxos, spent, mints, nextTx>>
  /\ UNCHANGED strict

\* A createFactory transition for the Factory of owner o that the holder
\* of another wallet w assembles from w's outputs and signs with w's key:
\* a transition without the owner's signature.  It is submitted like any
\* other (Submit).
UnauthorizedCreateFactory(p, w, o) ==
  /\ proc[p].pc = "idle"
  /\ w # o
  /\ nextTx + Cardinality(Building) < MaxTx
  /\ \E seedUtxo \in fetchAddressUTxOs(ChangeAddress(w)) :
       proc' = [proc EXCEPT ![p] =
         [Idle EXCEPT !.pc = "built", !.cmd = "unauthorized-create-factory",
            !.owner = o, !.seed = seedUtxo.ref,
            !.pre = FactoryStatesOf(o),
            !.factory = getFactoryMarkerAndScriptDetails(o, seedUtxo.ref),
            !.tx = [CreateFactoryTx(o, ChangeAddress(w), seedUtxo.ref,
                                    seedUtxo.ref, {})
                      EXCEPT !.signedBy = {w}]]]
  /\ UNCHANGED <<utxos, spent, mints, nextTx, strict>>

(***************************************************************************)
(* 2. Create Product (factory.ts:220-305)                                  *)
(***************************************************************************)
\* the transaction assembled at lines 245-297 and signed at line 299
CreateProductTx(ownerPkh, changeAddr, factory, product, productId, tag, firstRef, collateralRef, extras) ==
  [inputs |-> {firstRef} \cup extras,
   scriptInput |-> firstRef, scriptInputAddress |-> factory.address,
   collateral |-> collateralRef,
   mint |-> {Asset(factory.scriptHash, stringToHex(productId))},
   outputs |-> <<Output(product.address,
                        {Asset(factory.scriptHash, stringToHex(productId))},
                        mConStr0(<<PBytes(stringToHex(tag))>>))>>,
   requiredSigner |-> ownerPkh,
   signedBy |-> {ownerPkh},
   changeAddress |-> changeAddr]

\* lines 225-299.  getFactoryScriptDetails is called with the owner alone
\* (line 231) and getProductScriptDetails follows (line 232); a throw of
\* either ends the call before anything is fetched or assembled, and
\* getProductScriptDetails throws whenever line 231 has not.
CreateProduct(p, w, productId, tag) ==
  /\ proc[p].pc = "idle"
  /\ nextTx + Cardinality(Building) < MaxTx
  /\ LET changeAddr == ChangeAddress(w)
         factory == getFactoryScriptDetails(w, Undefined)
         product == getProductScriptDetails(w, productId)
         fetched == fetchAddressUTxOs(changeAddr)
         call == [Idle EXCEPT !.cmd = "create-product", !.owner = w,
                              !.productId = productId, !.tag = tag,
                              !.pre = FactoryStatesOf(w)]
         thrown(e) == proc' = [proc EXCEPT ![p] =
                        [call EXCEPT !.pc = "failed", !.err = e,
                                     !.factory = factory]]
     IN  IF ~factory.ok THEN thrown(factory.err)
         ELSE IF ~product.ok THEN thrown(product.err)
         ELSE IF fetched = {} \/ factory.factoryMarker = Undefined
              THEN thrown("TypeError")
         ELSE \E first \in fetched, collateral \in fetched :
              \E extras \in SUBSET (Refs(fetched) \ {first.ref}) :
                 proc' = [proc EXCEPT ![p] =
                   [call EXCEPT !.pc = "built", !.factory = factory,
                      !.product = product,
                      !.tx = CreateProductTx(w, changeAddr, factory, product,
                                             productId, tag, first.ref,
                                             collateral.ref, extras)]]
  /\ UNCHANGED <<utxos, spent, mints, nextTx, strict>>

(***************************************************************************)
(* 3. Read helpers (factory.ts:314-370)                                    *)
(***************************************************************************)
\* the createProduct calls of the other processes that have returned when a
\* read starts and were due to commit (the owner had a Factory, the id was
\* not in its list, the ledger did not reject the call): owner, product id
\* and tag of each.  Each read records them in `seen`.
ReturnedCreates(p) ==
  {[owner |-> proc[q].owner, productId |-> proc[q].productId,
    tag |-> proc[q].tag] :
     q \in {r \in Procs \ {p} :
              /\ proc[r].cmd = "create-product"
              /\ proc[r].pc \in {"done", "failed"}
              /\ proc[r].pre # {}
              /\ \A f \in proc[r].pre :
                   \A i \in 1..Len(f.datum.fields[1].list) :
                     f.datum.fields[1].list[i] # stringToHex(proc[r].productId)
              /\ proc[r].err # "LedgerSubmissionRejected"}}

\* getProducts(ownerPkh), lines 314-344: the factory is derived with the
\* owner alone (line 315); the asset index is then asked for the assets
\* minted under factory.factory.scriptHash, and answers or fails.
GetProducts(p, ownerPkh) ==
  /\ proc[p].pc = "idle"
  /\ LET factory == getFactoryScriptDetails(ownerPkh, Undefined)
         productPolicyId == factory.scriptHash
         assets == {m \in mints : m.policyId = productPolicyId}
         call == [Idle EXCEPT !.cmd = "get-products", !.owner = ownerPkh,
                              !.pre = FactoryStatesOf(ownerPkh),
                              !.seen = ReturnedCreates(p),
                              !.factory = factory]
     IN  IF ~factory.ok
         THEN proc' = [proc EXCEPT ![p] =
                [call EXCEPT !.pc = "failed", !.err = factory.err]]
         ELSE \/ proc' = [proc EXCEPT ![p] =
                   [call EXCEPT !.pc = "failed", !.err = "Koios error"]]
              \/ proc' = [proc EXCEPT ![p] =
                   [call EXCEPT !.pc = "done",
                      !.products = {[productId |-> hexToString(m.assetName),
                                     policyId |-> productPolicyId] :
                                      m \in assets}]]
  /\ UNCHANGED <<utxos, spent, mints, nextTx, strict>>

\* getTag(ownerPkh, productId), lines 347-361.  utxos[0] is any of the
\* outputs found at the Product address.
GetTag(p, ownerPkh, productId) ==
  /\ proc[p].pc = "idle"
  /\ LET product == getProductScriptDetails(ownerPkh, productId)
         found == fetchAddressUTxOs(product.address)
         call == [Idle EXCEPT !.cmd = "get-tag", !.owner = ownerPkh,
                              !.productId = productId,
                              !.pre = FactoryStatesOf(ownerPkh),
                              !.seen = ReturnedCreates(p),
                              !.product = product]
         notFound == [call EXCEPT !.pc = "failed",
                                  !.err = "Product datum not found"]
     IN  IF ~product.ok
         THEN proc' = [proc EXCEPT ![p] =
                [call EXCEPT !.pc = "failed", !.err = product.err]]
         ELSE IF found = {}
         THEN proc' = [proc EXCEPT ![p] = notFound]
         ELSE \E first \in found :
                proc' = [proc EXCEPT ![p] =
                  IF ~first.datum.present THEN notFound
                  ELSE [call EXCEPT !.pc = "done",
                          !.tagOut = hexToString(first.datum.fields[1].bytes)]]
  /\ UNCHANGED <<utxos, spent, mints, nextTx, strict>>

\* marker policy ids passed to get-factory (the command line requires the
\* argument, line 421): those minted so far, and one under which nothing
\* was minted
MarkerArgs == {m.policyId : m \in mints} \cup {"hash[other]"}

\* as GetFactory, but the outputs found at the derived address are consumed
GetFactoryConsuming(p, w, markerPolicyId) ==
  /\ proc[p].pc = "idle"
  /\ LET factory == getFactoryScriptDetails(w, markerPolicyId)
         call == [Idle EXCEPT !.cmd = "get-factory", !.owner = w,
                              !.marker = markerPolicyId,
                              !.pre = FactoryStatesOf(w),
                              !.factory = factory]
     IN  proc' = [proc EXCEPT ![p] =
           IF factory.ok THEN [call EXCEPT !.pc = "done"]
           ELSE [call EXCEPT !.pc = "failed", !.err = factory.err]]
  /\ LET found == fetchAddressUTxOs(
                    getFactoryScriptDetails(w, markerPolicyId).address)
     IN  /\ utxos' = utxos \ found
         /\ spent' = spent \cup Refs(found)
  /\ UNCHANGED <<mints, nextTx, strict>>

\* getFactory(walletFile, markerPolicyId), lines 363-370: returns what
\* getFactoryScriptDetails returns and throws what it throws
GetFactory(p, w, markerPolicyId) ==
  /\ proc[p].pc = "idle"
  /\ LET factory == getFactoryScriptDetails(w, markerPolicyId)
         call == [Idle EXCEPT !.cmd = "get-factory", !.owner = w,
                              !.marker = markerPolicyId,
                              !.pre = FactoryStatesOf(w),
                              !.factory = factory]
     IN  proc' = [proc EXCEPT ![p] =
           IF factory.ok THEN [call EXCEPT !.pc = "done"]
           ELSE [call EXCEPT !.pc = "failed", !.err = factory.err]]
  /\ UNCHANGED <<utxos, spent, mints, nextTx, strict>>

\* the call has returned or thrown; the process exits
Return(p) ==
  /\ proc[p].pc \in {"done", "failed"}
  /\ proc' = [proc EXCEPT ![p] = Idle]
  /\ UNCHANGED <<utxos, spent, mints, nextTx, strict>>

(***************************************************************************)
(* Specification                                                           *)
(***************************************************************************)
Genesis(w, i) ==
  UTxO(outputReference("genesis:" \o w, i), Output(ChangeAddress(w), {}, NoDatum))

\* wallet o1 holds two outputs and wallet o2 none, or each holds one; the
\* installed library is of either kind
Init ==
  /\ utxos \in {{Genesis("o1", 0), Genesis("o1", 1)},
                {Genesis("o1", 0), Genesis("o2", 0)}}
  /\ spent = {}
  /\ mints = {}
  /\ nextTx = 0
  /\ proc = [p \in Procs |-> Idle]
  /\ strict \in BOOLEAN

Next ==
  \E p \in Procs :
    \/ \E w \in Owners : CreateFactoryFetch(p, w)
    \/ CreateFactoryBuild(p)
    \/ Submit(p)
    \/ \E w \in Owners, o \in Owners : UnauthorizedCreateFactory(p, w, o)
    \/ \E w \in Owners, productId \in ProductIds, tag \in Tags :
         CreateProduct(p, w, productId, tag)
    \/ \E o \in Owners : GetProducts(p, o)
    \/ \E o \in Owners, productId \in ProductIds : GetTag(p, o, productId)
    \/ \E w \in Owners, m \in MarkerArgs : GetFactory(p, w, m)
    \/ Return(p)

Spec == Init /\ [][Next]_vars

(***************************************************************************)
(* Properties                                                              *)
(***************************************************************************)
Ledger == <<utxos, spent, mints, nextTx>>

\* every output reference the ledger has ever held
AllRefs == spent \cup Refs(utxos)

\* the mints committed under the marker identity of an owner and a seed
MarkerMints(o, s) == {m \in mints : m.policyId = MarkerPolicy(o, s)}

\* the (output, asset) pairs that hold units of a policy
UnitsOf(policyId) ==
  UNION {{<<u.ref, a>> : a \in {b \in u.amount : b.policyId = policyId}} :
           u \in utxos}

\* the asset name of the marker: the UTF-8 bytes of "FACTORY_MARKER"
MarkerName ==
  <<"46", "41", "43", "54", "4f", "52", "59", "5f", "4d", "41", "52", "4b",
    "45", "52">>

\* derive("factory", [Owner, Marker]): the FactoryIdentity address
FactoryAddress(o, marker) ==
  getScriptAddress(applyParamsToScript2(getValidator("factory."), o, marker))

\* C1 as stated: a createFactory whose seed is already spent when it is
\* submitted fails with SeedAlreadySpent and changes nothing, and for every
\* owner and seed at most one mint under their marker identity is ever
\* committed and at most one marker unit exists.
C1_SeedAlreadySpent ==
  [][/\ \A p \in Procs :
          (/\ proc[p].cmd = "create-factory"
           /\ proc[p].pc = "built"
           /\ proc[p].seed \in spent
           /\ proc'[p].pc # "built")
          => /\ proc'[p].pc = "failed"
             /\ proc'[p].err = "SeedAlreadySpent"
             /\ UNCHANGED Ledger
     /\ Ledger' # Ledger =>
          \A o \in Owners : \A s \in AllRefs' :
            /\ Cardinality(MarkerMints(o, s)') <= 1
            /\ \A m \in MarkerMints(o, s)' : m.quantity = 1
            /\ Cardinality(UnitsOf(MarkerPolicy(o, s))') <= 1]_vars

\* C1, amended: a createFactory whose seed is already spent when it is
\* submitted fails with the ledger's rejection, passed through as it is
\* thrown by submitTx, and changes nothing; for every owner and seed at most
\* one mint under their marker identity is ever committed and at most one
\* marker unit exists.
C1_OneShotSeed ==
  [][/\ \A p \in Procs :
          (/\ proc[p].cmd = "create-factory"
           /\ proc[p].pc = "built"
           /\ proc[p].seed \in spent
           /\ proc'[p].pc # "built")
          => /\ proc'[p].pc = "failed"
             /\ proc'[p].err = "LedgerSubmissionRejected"
             /\ UNCHANGED Ledger
     /\ Ledger' # Ledger =>
          \A o \in Owners : \A s \in AllRefs' :
            /\ Cardinality(MarkerMints(o, s)') <= 1
            /\ \A m \in MarkerMints(o, s)' : m.quantity = 1
            /\ Cardinality(UnitsOf(MarkerPolicy(o, s))') <= 1]_vars

\* a createFactory was rejected for a seed that another createFactory of the
\* same owner had consumed, whose marker exists
C1_Witness ==
  \E p \in Procs :
    /\ proc[p].cmd = "create-factory"
    /\ proc[p].pc = "failed"
    /\ proc[p].err = "LedgerSubmissionRejected"
    /\ proc[p].seed \in spent
    /\ MarkerMints(proc[p].owner, proc[p].seed) # {}

\* C6: a committed createFactory mints exactly one unit, named
\* FACTORY_MARKER, under the marker identity of (owner, seed), and locks it
\* with the empty product list at the factory address of (owner, marker).
C6_MarkerLockedWithEmptyState ==
  [][\A p \in Procs :
       (/\ proc[p].cmd = "create-factory"
        /\ proc[p].pc = "built"
        /\ proc'[p].pc = "done")
       => LET marker == MarkerPolicy(proc[p].owner, proc[p].seed)
              unit == [policyId |-> marker, assetName |-> MarkerName,
                       quantity |-> 1]
          IN  /\ mints' \ mints =
                   {[tx |-> TxHash(nextTx), policyId |-> marker,
                     assetName |-> MarkerName, quantity |-> 1]}
              /\ \E u \in utxos' \ utxos :
                   /\ u.address = FactoryAddress(proc[p].owner, marker)
                   /\ u.amount = {unit}
                   /\ u.datum = [present |-> TRUE,
                                 fields |-> <<[kind |-> "list", list |-> <<>>,
                                               bytes |-> <<>>]>>]
                   /\ \A v \in utxos' \ {u} :
                        \A a \in v.amount : a.policyId # marker]_vars

\* a createFactory has committed and its marker sits at its factory address
C6_Witness ==
  \E p \in Procs :
    /\ proc[p].cmd = "create-factory"
    /\ proc[p].pc = "done"
    /\ \E u \in utxos :
         /\ u.address = proc[p].factory.address
         /\ \E a \in u.amount : a.policyId = proc[p].factory.factoryMarker

(***************************************************************************)
(* Properties of createProduct and of the re-derivations                   *)
(***************************************************************************)
Returned(p) == proc[p].pc \in {"done", "failed"}

\* the marker identity carried by a FactoryState resource
MarkerOf(f) == (CHOOSE a \in f.amount : a.assetName = MarkerName).policyId

\* the product list of a FactoryState resource: field 0 of its datum
ProductList(f) == f.datum.fields[1].list

Occurrences(list, x) == Cardinality({i \in 1..Len(list) : list[i] = x})

\* derive("product", [Owner, Marker, ProductId]): the Product address
ProductAddress(o, marker, productId) ==
  getScriptAddress(applyParamsToScript3(getValidator("product"), o, marker,
                                        HexText(stringToHex(productId))))

\* a createProduct call that has returned, made by the owner of a Factory
\* that existed when it started, for a product id that was not yet in the
\* Factory's list, and that did not lose a race for the FactoryState resource
Serviceable(p) ==
  /\ proc[p].cmd = "create-product"
  /\ Returned(p)
  /\ proc[p].pre # {}
  /\ \A f \in proc[p].pre :
       Occurrences(ProductList(f), stringToHex(proc[p].productId)) = 0
  /\ proc[p].err # "LedgerSubmissionRejected"

\* C2: a createProduct that is due to commit has committed with its two
\* protocol outputs: the FactoryState re-locked at the same address with the
\* same marker unit and the product id appended at the tail of the list, and
\* a ProductState with the caller's tag at the derived Product address.
C2_TwoOutputs ==
  \A p \in Procs :
    Serviceable(p) =>
      /\ proc[p].pc = "done"
      /\ \E f \in proc[p].pre :
           /\ \E u \in utxos :
                /\ u.address = f.address
                /\ u.amount = f.amount
                /\ ProductList(u) =
                     Append(ProductList(f), stringToHex(proc[p].productId))
           /\ \E v \in utxos :
                /\ v.address = ProductAddress(proc[p].owner, MarkerOf(f),
                                              proc[p].productId)
                /\ v.datum = [present |-> TRUE,
                              fields |-> <<[kind |-> "bytes", list |-> <<>>,
                                 bytes |-> stringToHex(proc[p].tag)]>>]

\* C3: once a createProduct for a product id has returned, the id is in the
\* Factory's list exactly once: the call appended it, or it was there and
\* the call failed with DuplicateProductId leaving the FactoryState as it
\* was; no FactoryState list ever holds an id twice.
C3_NoDuplicate ==
  /\ \A o \in Owners : \A f \in FactoryStatesOf(o) :
       \A i, j \in 1..Len(ProductList(f)) :
         ProductList(f)[i] = ProductList(f)[j] => i = j
  /\ \A p \in Procs :
       (/\ proc[p].cmd = "create-product"
        /\ Returned(p)
        /\ proc[p].pre # {}
        /\ proc[p].err # "LedgerSubmissionRejected")
       => /\ \E f \in FactoryStatesOf(proc[p].owner) :
               Occurrences(ProductList(f), stringToHex(proc[p].productId)) = 1
          /\ (\E f \in proc[p].pre :
                Occurrences(ProductList(f), stringToHex(proc[p].productId)) > 0)
             => /\ proc[p].pc = "failed"
                /\ proc[p].err = "DuplicateProductId"

\* C4: of two createProduct calls that started from the same FactoryState
\* and have both returned, exactly one has committed and the other was
\* rejected by the ledger.
C4_ContentionOneWins ==
  \A p, q \in Procs :
    (/\ p # q
     /\ proc[p].cmd = "create-product" /\ Returned(p)
     /\ proc[q].cmd = "create-product" /\ Returned(q)
     /\ proc[p].owner = proc[q].owner
     /\ proc[p].productId # proc[q].productId
     /\ proc[p].pre # {}
     /\ proc[p].pre = proc[q].pre)
    => \/ /\ proc[p].pc = "done"
          /\ proc[q].pc = "failed"
          /\ proc[q].err = "LedgerSubmissionRejected"
       \/ /\ proc[q].pc = "done"
          /\ proc[p].pc = "failed"
          /\ proc[p].err = "LedgerSubmissionRejected"

\* C5: a createProduct that is due to commit has consumed the FactoryState
\* resource that was current when it started; one that found no FactoryState
\* resource has failed without building a transaction.
C5_ConsumesFactoryState ==
  \A p \in Procs :
    /\ Serviceable(p) =>
         /\ proc[p].pc = "done"
         /\ \E f \in proc[p].pre :
              /\ proc[p].tx.scriptInput = f.ref
              /\ f.ref \in spent
    /\ (proc[p].cmd = "create-product" /\ Returned(p) /\ proc[p].pre = {})
       => /\ proc[p].pc = "failed"
          /\ proc[p].tx = NoTx

\* C7: a createProduct that is due to commit has minted exactly one unit
\* whose asset name is the product id, and that unit sits in the output at
\* the Product address.
C7_OneProductUnit ==
  \A p \in Procs :
    Serviceable(p) =>
      /\ proc[p].pc = "done"
      /\ \E m \in mints :
           /\ m.assetName = stringToHex(proc[p].productId)
           /\ m.quantity = 1
           /\ \A n \in mints :
                (n.policyId = m.policyId /\ n.assetName = m.assetName) => n = m
           /\ \E f \in proc[p].pre : \E v \in utxos :
                /\ v.address = ProductAddress(proc[p].owner, MarkerOf(f),
                                              proc[p].productId)
                /\ v.amount = {[policyId |-> m.policyId,
                                assetName |-> m.assetName, quantity |-> 1]}

\* C8: the Product address that createProduct and getTag derive is defined,
\* and it is the one derived from the owner, the marker identity of one of
\* the owner's Factories and the product id (so that Factories with different
\* markers give different Product addresses).
C8_ProductAddressFromFullTuple ==
  \A p \in Procs :
    (/\ proc[p].cmd \in {"create-product", "get-tag"}
     /\ Returned(p)
     /\ proc[p].pre # {})
    => /\ proc[p].product.ok
       /\ \E f \in proc[p].pre :
            /\ proc[p].product.address =
                 ProductAddress(proc[p].owner, MarkerOf(f), proc[p].productId)
            /\ \A g \in proc[p].pre :
                 MarkerOf(g) # MarkerOf(f) =>
                   proc[p].product.address #
                     ProductAddress(proc[p].owner, MarkerOf(g),
                                    proc[p].productId)

\* C9: two calls of one owner that derive the Product address for different
\* product ids obtain different addresses.
C9_InjectiveOverProductId ==
  \A p, q \in Procs :
    (/\ proc[p].cmd \in {"create-product", "get-tag"} /\ Returned(p)
     /\ proc[q].cmd \in {"create-product", "get-tag"} /\ Returned(q)
     /\ proc[p].owner = proc[q].owner
     /\ proc[p].productId # proc[q].productId)
    => /\ proc[p].product.ok
       /\ proc[q].product.ok
       /\ proc[p].product.address # proc[q].product.address

\* C10: the factory address that a later call re-derives (getFactory with the
\* marker identity of a Factory of the owner, createProduct, getProducts) is
\* the address at which createFactory locked that Factory's marker.
C10_FactoryIdentityStable ==
  \A p \in Procs :
    (/\ proc[p].cmd \in {"get-factory", "create-product", "get-products"}
     /\ Returned(p)
     /\ proc[p].pre # {}
     /\ proc[p].cmd = "get-factory" =>
          \E f \in proc[p].pre : MarkerOf(f) = proc[p].marker)
    => /\ proc[p].factory.ok
       /\ \E f \in proc[p].pre :
            /\ proc[p].factory.address = f.address
            /\ proc[p].cmd = "get-factory" => MarkerOf(f) = proc[p].marker

(***************************************************************************)
(* Properties of the state resources, provenance and discovery             *)
(***************************************************************************)
\* the outputs that hold a unit of the given policy and asset name
HoldersOf(policyId, assetName) ==
  {u \in utxos : \E a \in u.amount :
     a.policyId = policyId /\ a.assetName = assetName}

\* C11: for every Factory created (every marker minted) exactly one unspent
\* output sits at its factory address, and it carries the marker and the
\* FactoryState; for every Product created (every other unit minted, and
\* every createProduct that is due to commit and has returned) exactly one
\* unspent output at its Product address carries a ProductState.
C11_ExactlyOneStateResource ==
  /\ \A p \in Procs :
       Serviceable(p) =>
         \E f \in proc[p].pre :
           Cardinality({u \in utxos :
              /\ u.address = ProductAddress(proc[p].owner, MarkerOf(f),
                                            proc[p].productId)
              /\ u.datum.present}) = 1
  /\ \A m \in mints :
       IF m.assetName = MarkerName
       THEN \E o \in Owners :
              LET here == {u \in utxos :
                             u.address = FactoryAddress(o, m.policyId)}
              IN  /\ Cardinality(here) = 1
                  /\ here = HoldersOf(m.policyId, MarkerName)
                  /\ \A u \in here : u.datum.present
       ELSE /\ Cardinality(HoldersOf(m.policyId, m.assetName)) = 1
            /\ \A u \in HoldersOf(m.policyId, m.assetName) : u.datum.present

\* C12: provenance.  No unit other than a marker is minted unless a marker
\* of the same owner was minted before, and a createProduct that is due to
\* commit has minted its Product unit in a transaction that consumes the
\* marker-carrying FactoryState resource of one of the owner's Factories.
C12_Provenance ==
  /\ \A m \in mints :
       m.assetName # MarkerName => \E n \in mints : n.assetName = MarkerName
  /\ \A p \in Procs :
       Serviceable(p) =>
         /\ proc[p].pc = "done"
         /\ \E f \in proc[p].pre :
              /\ \E n \in mints : n.policyId = MarkerOf(f)
              /\ proc[p].tx.scriptInput = f.ref
              /\ f.ref \in proc[p].tx.inputs
              /\ \E a \in proc[p].tx.mint :
                   /\ a.assetName = stringToHex(proc[p].productId)
                   /\ HoldersOf(a.policyId, a.assetName) # {}

\* C13: discovery.  A getProducts for an owner that has a Factory returns,
\* with one entry for every createProduct of that owner that had returned
\* (due to commit) when it started, and with no entry but for a Product
\* unit that was minted.
C13_Discovery ==
  \A p \in Procs :
    (/\ proc[p].cmd = "get-products" /\ Returned(p)
     /\ proc[p].err # "Koios error"
     /\ proc[p].pre # {}) =>
      /\ proc[p].pc = "done"
      /\ \A c \in proc[p].seen :
           c.owner = proc[p].owner =>
             \E e \in proc[p].products : e.productId = c.productId
      /\ \A e \in proc[p].products :
           \E m \in mints :
             /\ m.assetName # MarkerName
             /\ m.policyId = e.policyId
             /\ hexToString(m.assetName) = e.productId

\* C14: tag round trip.  Decoding the encoded tag gives the tag back, and a
\* getTag that starts after a createProduct (due to commit) of the same
\* owner and product id has returned yields the tag of that createProduct.
C14_TagRoundTrip ==
  /\ \A t \in Tags : hexToString(stringToHex(t)) = t
  /\ \A p \in Procs :
       (proc[p].cmd = "get-tag" /\ Returned(p)) =>
         \A c \in proc[p].seen :
           (c.owner = proc[p].owner /\ c.productId = proc[p].productId) =>
             /\ proc[p].pc = "done"
             /\ proc[p].tagOut = c.tag

\* C15: a getTag that finds no output with a datum at the Product address
\* fails with the "not found" error and returns no tag.
C15_NotFound ==
  \A p \in Procs :
    (/\ proc[p].cmd = "get-tag"
     /\ Returned(p)
     /\ \A f \in proc[p].pre : \A u \in utxos :
          u.address = ProductAddress(proc[p].owner, MarkerOf(f),
                                     proc[p].productId)
          => ~u.datum.present)
    => /\ proc[p].pc = "failed"
       /\ proc[p].err = "Product datum not found"
       /\ proc[p].tagOut = <<>>

\* the transactions that change the ledger
Writers == {"create-factory", "create-product"}

\* the calls that submit a transaction
Submitters == Writers \cup {"unauthorized-create-factory"}

C17_AppendOnly ==
  \A p \in Procs :
    Serviceable(p) =>
      /\ \E f \in proc[p].pre : \E v \in utxos :
           /\ v.address = ProductAddress(proc[p].owner, MarkerOf(f),
                                         proc[p].productId)
           /\ v.datum.present
           /\ v.datum.fields[1].bytes = stringToHex(proc[p].tag)
      /\ \E g \in FactoryStatesOf(proc[p].owner) :
           Occurrences(ProductList(g), stringToHex(proc[p].productId)) > 0

\* C18: atomicity.  A submitted transition is rejected with the ledger
\* unchanged, or it commits in full: every input is spent, every declared
\* output exists, every minted unit is recorded and held by an output; a
\* committed createFactory has spent its seed and locked the marker with the
\* FactoryState at the factory address.
C18_Atomic ==
  [][\A p \in Procs :
       (proc[p].cmd \in Writers /\ proc[p].pc = "built" /\ proc'[p].pc # "built")
       => \/ /\ proc'[p].pc = "failed"
             /\ UNCHANGED Ledger
          \/ /\ proc'[p].pc = "done"
             /\ spent' = spent \cup proc[p].tx.inputs
             /\ Refs(utxos') \cap proc[p].tx.inputs = {}
             /\ \A i \in 1..Len(proc[p].tx.outputs) :
                  \E u \in utxos' \ utxos :
                    /\ u.address = proc[p].tx.outputs[i].address
                    /\ u.amount = proc[p].tx.outputs[i].amount
                    /\ u.datum = proc[p].tx.outputs[i].datum
             /\ \A a \in proc[p].tx.mint :
                  /\ \E m \in mints' \ mints :
                       m.policyId = a.policyId /\ m.assetName = a.assetName
                  /\ Cardinality(HoldersOf(a.policyId, a.assetName)') = 1
             /\ proc[p].cmd = "create-factory" =>
                  LET marker == MarkerPolicy(proc[p].owner, proc[p].seed)
                  IN  /\ proc[p].seed \in spent'
                      /\ \E u \in HoldersOf(marker, MarkerName)' :
                           /\ u.address = FactoryAddress(proc[p].owner, marker)
                           /\ u.datum.present]_vars

\* one createFactory has committed and another was rejected
C18_Witness ==
  \E p, q \in Procs :
    /\ proc[p].cmd = "create-factory" /\ proc[p].pc = "done"
    /\ proc[p].seed \in spent
    /\ proc[q].cmd = "create-factory" /\ proc[q].pc = "failed"
    /\ proc[q].err = "LedgerSubmissionRejected"

Reads == {"get-products", "get-tag", "get-factory"}

\* C19: a read leaves the ledger as it is and leaves every other call as it
\* is: a transaction that is built stays built and the ledger accepts it
\* after the read exactly if it did before.
C19_ReadsPure ==
  [][\A p \in Procs :
       (proc[p].pc = "idle" /\ proc'[p].cmd \in Reads)
       => /\ UNCHANGED Ledger
          /\ \A q \in Procs \ {p} :
               /\ proc'[q] = proc[q]
               /\ proc[q].pc = "built" =>
                    (LedgerAccepts(proc[q].tx) <=> LedgerAccepts(proc[q].tx)')]_vars

\* a getFactory has returned the address of an existing Factory while a
\* createFactory of the other process is built and not yet submitted
C19_Witness ==
  \E p, q \in Procs :
    /\ proc[p].cmd = "get-factory" /\ proc[p].pc = "done"
    /\ \E f \in proc[p].pre : f.address = proc[p].factory.address
    /\ proc[q].cmd = "create-factory" /\ proc[q].pc = "built"
    /\ LedgerAccepts(proc[q].tx)

\* the mint of a createFactory of owner o with seed s
MarkerMintOf(o, s) ==
  {[policyId |-> MarkerPolicy(o, s), assetName |-> MarkerName, quantity |-> 1]}

\* C20 as stated: the transaction a createFactory builds consumes its seed
\* and mints under the marker policy of (owner, seed), and the seed is an
\* unspent output at the owner's address when the transaction is built; with
\* no output at the owner's address the call fails with 'No wallet UTxOs',
\* builds nothing and leaves the ledger as it is.
C20_SeedUnspentAtBuild ==
  [][\A p \in Procs :
       /\ (proc[p].pc = "idle" /\ proc'[p].cmd = "create-factory"
           /\ fetchAddressUTxOs(ChangeAddress(proc'[p].owner)) = {})
          => /\ proc'[p].pc = "failed"
             /\ proc'[p].err = "No wallet UTxOs"
             /\ proc'[p].tx = NoTx
             /\ UNCHANGED Ledger
       /\ (proc[p].cmd = "create-factory" /\ proc[p].pc # "built"
           /\ proc'[p].pc = "built")
          => /\ proc'[p].seed \in proc'[p].tx.inputs
             /\ proc'[p].tx.mint = MarkerMintOf(proc'[p].owner, proc'[p].seed)
             /\ \E u \in utxos :
                  /\ u.ref = proc'[p].seed
                  /\ u.address = ChangeAddress(proc'[p].owner)]_vars

\* C20, amended: the seed is an unspent output at the owner's address when
\* createFactory fetches the wallet's outputs; the transaction built from it
\* consumes that seed and mints under the marker policy of (owner, seed),
\* whether or not the seed is still unspent by then.  With no output at the
\* owner's address the call fails with 'No wallet UTxOs', builds nothing and
\* leaves the ledger as it is.
C20_SeedBinding ==
  [][\A p \in Procs :
       /\ (proc[p].pc = "idle" /\ proc'[p].cmd = "create-factory")
          => /\ UNCHANGED Ledger
             /\ proc'[p].tx = NoTx
             /\ fetchAddressUTxOs(ChangeAddress(proc'[p].owner)) = {} =>
                  /\ proc'[p].pc = "failed"
                  /\ proc'[p].err = "No wallet UTxOs"
             /\ proc'[p].err = "No wallet UTxOs" =>
                  fetchAddressUTxOs(ChangeAddress(proc'[p].owner)) = {}
             /\ proc'[p].pc # "failed" =>
                  \E u \in utxos :
                    /\ u.ref = proc'[p].seed
                    /\ u.address = ChangeAddress(proc'[p].owner)
       /\ (proc[p].cmd = "create-factory" /\ proc[p].pc # "built"
           /\ proc'[p].pc = "built")
          => /\ UNCHANGED Ledger
             /\ proc'[p].seed = proc[p].seed
             /\ proc'[p].seed \in proc'[p].tx.inputs
             /\ proc'[p].tx.mint = MarkerMintOf(proc'[p].owner, proc'[p].seed)]_vars

\* a createFactory has built its transaction on a seed that another
\* transaction had spent since the wallet's outputs were fetched
C20_Witness ==
  \E p \in Procs :
    /\ proc[p].cmd = "create-factory" /\ proc[p].pc = "built"
    /\ proc[p].seed \in proc[p].tx.inputs
    /\ proc[p].seed \in spent
    /\ proc[p].tx.mint = MarkerMintOf(proc[p].owner, proc[p].seed)

\* C21: mint and discovery agree on the minting identity.  For a
\* createProduct that is due to commit and a getProducts of the same owner
\* that started after it had returned, both derive a factory script, the
\* Product unit is minted under the script hash that getProducts queries
\* and is listed; and a getProducts lists only units minted under the
\* script hash it queries.
C21_MintDiscoveryAgreement ==
  /\ \A p, q \in Procs :
       (/\ Serviceable(p)
        /\ proc[q].cmd = "get-products" /\ Returned(q)
        /\ proc[q].err # "Koios error"
        /\ [owner |-> proc[p].owner, productId |-> proc[p].productId,
            tag |-> proc[p].tag] \in proc[q].seen
        /\ proc[q].owner = proc[p].owner)
       => /\ proc[p].factory.ok /\ proc[q].factory.ok
          /\ proc[p].factory.scriptHash = proc[q].factory.scriptHash
          /\ \E a \in proc[p].tx.mint :
               /\ a.policyId = proc[q].factory.scriptHash
               /\ a.assetName = stringToHex(proc[p].productId)
               /\ [productId |-> proc[p].productId,
                   policyId |-> a.policyId] \in proc[q].products
  /\ \A q \in Procs :
       (proc[q].cmd = "get-products" /\ proc[q].pc = "done") =>
         \A e \in proc[q].products :
           /\ e.policyId = proc[q].factory.scriptHash
           /\ \E m \in mints :
                /\ m.policyId = e.policyId
                /\ hexToString(m.assetName) = e.productId

====
